---- MODULE Spec2Model ----
(***************************************************************************)
(* Item Management API (src/app.py): an in-memory Registry of items,       *)
(* mirrored to a JSON file after every mutation and, when reachable, to a  *)
(* PostgreSQL table.                                                       *)
(*                                                                         *)
(* Every request handler is an `async def` without an await, so a handler  *)
(* runs to completion before the next one starts: one action per handler.  *)
(* What the database driver and the file system do during a request is an  *)
(* input of the action (DbOutcomes, SaveOutcomes).                         *)
(*                                                                         *)
(* Spec is the server's life: requests one at a time, stops (with the      *)
(* shutdown and atexit hooks, or killed) and starts from the file.         *)
(* SaveSpec is save_to_file() alone, step by step, called from several     *)
(* threads at once under threading.Lock.                                   *)
(*                                                                         *)
(* Costs are fixed point, in thousandths: 10000 is 10.00; the comparison   *)
(* abs(a - b) < 0.01 is exact here, while binary floating point rounds at  *)
(* the boundary itself.  The timestamp written into the file is never      *)
(* read back and is left out.                                              *)
(***************************************************************************)
EXTENDS Integers, Sequences, FiniteSets, TLC

\* ---------------------------------------------------------------- bounds
\* The Registry holds at most MaxItems items (add is not taken beyond it).
MaxItems == 2
\* The table's identity sequence hands out ids 1..MaxDbId.
MaxDbId == 1

\* ---------------------------------------------------------------- inputs
Ids == {1, 2}
Codes == {"A1", "B2"}
Units == {5, 6}
Ages == {2, 3}
Costs == {10000, 10004, 10010, 10020}

\* The request of the example: {id 1, A1, 5, 2, 10.00}
BaseRequest == [id |-> 1, code |-> "A1", unit |-> 5, age |-> 2, cost |-> 10000]

\* The number of fields in which a request differs from BaseRequest
Differences(r) ==
    Cardinality({k \in DOMAIN BaseRequest : r[k] # BaseRequest[k]})

\* abs(item.cost - cost) < 0.01, in thousandths
Tolerance == 10

\* AddItemRequest: the example's request and every request that differs from it
\* in one field
AddItemRequest ==
    {r \in [id : Ids, code : Codes, unit : Units, age : Ages, cost : Costs] :
        Differences(r) <= 1}
\* RemoveRequest
RemoveRequest == [id : {0} \cup Ids \cup (1..MaxDbId)]
\* SortRequest
SortRequest == {"unit", "age", "cost"}

\* What the database does during one request:
\*   down       the probe cannot connect
\*   connfail   the probe connects, the handler's own connect fails
\*   curfail    conn.cursor() raises
\*   execfail   the statement raises, the rollback works
\*   commitfail conn.commit() raises, the rollback works
\*   lost       the statement raises and so does the rollback (connection gone)
\*   norow      the procedure returns no row
\*   reject     the procedure returns status 0
\*   ok         everything works
DbOutcomes == {"down", "connfail", "curfail", "execfail", "commitfail", "lost", "ok"}
AddDbOutcomes == DbOutcomes \cup {"norow", "reject"}

\* What the file system does during one save: the write works, or json.dump
\* raises after open() truncated the file.  (save_to_file also covers open()
\* raising, which leaves the file as it was: the stale file that a handler
\* leaves when it never reaches its save.)
SaveOutcomes == {"ok", "writefail"}

VARIABLES
    in_memory_store,  \* the Registry: a sequence of Item
    file,             \* items_backup.json: absent, malformed or an item list
    dbTable,          \* the ids (primary keys) of the rows of table items
    dbSeq,            \* the next id of the table's identity sequence
    last,             \* the last request: what it was given, saw and answered
    lock,             \* threading.Lock(): the thread that holds it, or "free"
    saves             \* the threads that call save_to_file(), each one's position

vars == <<in_memory_store, file, dbTable, dbSeq, last, lock, saves>>

\* The threads that call save_to_file(): the event loop's thread, which runs
\* the request handlers, and the two exit hooks
Threads == {"handler", "shutdown", "atexit"}

\* A thread outside save_to_file(): the handler thread is "idle" between two
\* requests, a hook is at its "start" or "done"
NotSaving(pc) ==
    [pc |-> pc, attached |-> FALSE, src |-> <<>>, i |-> 0, data |-> <<>>,
     k |-> 0, seen |-> {}]

\* ------------------------------------------------------------- helpers
Abs(x) == IF x < 0 THEN -x ELSE x

\* Item(id=..., code=..., unit=..., age=..., cost=...)
Item(id, code, unit, age, cost) ==
    [id |-> id, code |-> code, unit |-> unit, age |-> age, cost |-> cost]

NoFile == [kind |-> "absent", items |-> <<>>]
Malformed == [kind |-> "malformed", items |-> <<>>]
JsonFile(items) == [kind |-> "json", items |-> items]

\* [item for item in store if item.id != id]
RECURSIVE FilterOutId(_, _)
FilterOutId(store, id) ==
    IF store = <<>> THEN <<>>
    ELSE IF Head(store).id # id
         THEN <<Head(store)>> \o FilterOutId(Tail(store), id)
         ELSE FilterOutId(Tail(store), id)

\* Mutant: the probe's failure is not turned into False
test_db_connection_always_true(db) == TRUE

\* test_db_connection(): connect, close, True; any exception gives False
test_db_connection(db) == db # "down"

\* Mutant: the file is opened for appending and keeps its first document
save_to_file_keeps_old(store, old, sv) ==
    CASE sv = "ok" -> IF old.kind = "json" THEN old ELSE JsonFile(store)
      [] sv = "openfail" -> old
      [] sv = "writefail" -> Malformed

\* save_to_file(): the whole Registry replaces the file; a failure is logged
\* and swallowed
save_to_file(store, old, sv) ==
    CASE sv = "ok" -> JsonFile(store)
      [] sv = "openfail" -> old
      [] sv = "writefail" -> Malformed

\* Mutant: a malformed file's exception is not caught
load_from_file_propagates(store, f) ==
    CASE f.kind = "absent" -> [raised |-> FALSE, store |-> store]
      [] f.kind = "malformed" -> [raised |-> TRUE, store |-> store]
      [] OTHER ->
           [raised |-> FALSE,
            store |-> [i \in 1..Len(f.items) |->
                          Item(f.items[i].id, f.items[i].code, f.items[i].unit,
                               f.items[i].age, f.items[i].cost)]]

\* load_from_file(): without a file the Registry stays as it is; json.load
\* or Item(**item) raising is logged and gives the empty Registry; else the
\* Registry is the file's items, each rebuilt from its fields
load_from_file(store, f) ==
    CASE f.kind = "absent" -> [raised |-> FALSE, store |-> store]
      [] f.kind = "malformed" -> [raised |-> FALSE, store |-> <<>>]
      [] OTHER ->
           [raised |-> FALSE,
            store |-> [i \in 1..Len(f.items) |->
                          Item(f.items[i].id, f.items[i].code, f.items[i].unit,
                               f.items[i].age, f.items[i].cost)]]

\* Mutant: the costs are compared for equality, without the tolerance
check_duplicate_exact_cost(store, code, unit, age, cost) ==
    \E i \in 1..Len(store) :
        /\ store[i].code = code
        /\ store[i].unit = unit
        /\ store[i].age = age
        /\ store[i].cost = cost

\* Mutant: the tolerance is inclusive (<= 0.01)
check_duplicate_inclusive(store, code, unit, age, cost) ==
    \E i \in 1..Len(store) :
        /\ store[i].code = code
        /\ store[i].unit = unit
        /\ store[i].age = age
        /\ Abs(store[i].cost - cost) <= Tolerance

\* check_duplicate_in_memory(code, unit, age, cost)
check_duplicate_in_memory(store, code, unit, age, cost) ==
    \E i \in 1..Len(store) :
        /\ store[i].code = code
        /\ store[i].unit = unit
        /\ store[i].age = age
        /\ Abs(store[i].cost - cost) < Tolerance

\* ---------------------------------------------------- database gateway
\* The driver calls of test_db_connection(), in order
ProbeLog(db) == IF db = "down" THEN <<"connect">> ELSE <<"connect", "conn.close">>

\* The stored procedure add_call: it inserts the row under the next id of the
\* sequence and answers (id, 1, message), or rejects with status 0
add_call(table, seq, code, unit, age, cost, db) ==
    IF db = "reject"
    THEN [row |-> [id |-> 0, status |-> 0, message |-> "Item already exists"],
          dbTable |-> table, dbSeq |-> seq]
    ELSE [row |-> [id |-> seq, status |-> 1, message |-> "Item added successfully"],
          dbTable |-> table \cup {seq},
          dbSeq |-> seq + 1]

\* call_stored_procedure(code, unit, age, cost): what it returns or raises,
\* the table it leaves, the driver calls it made and the connections it
\* left open.  Every failure it catches leaves as an HTTPException(500); an
\* exception raised by conn.rollback() inside a handler leaves as it is.
call_stored_procedure(table, seq, code, unit, age, cost, db) ==
    LET sp == add_call(table, seq, code, unit, age, cost, db)
        Raise(kind, detail, log) ==
            [raised |-> kind, status_code |-> 500, detail |-> detail,
             row |-> [id |-> 0, status |-> 0, message |-> ""],
             dbTable |-> table, dbSeq |-> seq, log |-> log, open |-> 0]
    IN CASE db = "connfail" ->
              \* get_db_connection raises HTTPException(503): an Exception,
              \* 'conn' is not in locals()
              Raise("HTTPException", "Stored procedure error", <<"connect">>)
         [] db = "curfail" ->
              Raise("HTTPException", "Database error",
                    <<"connect", "cursor", "rollback", "conn.close">>)
         [] db = "execfail" ->
              Raise("HTTPException", "Database error",
                    <<"connect", "cursor", "callproc", "rollback",
                      "cur.close", "conn.close">>)
         [] db = "commitfail" ->
              Raise("HTTPException", "Database error",
                    <<"connect", "cursor", "callproc", "fetchone", "commit",
                      "rollback", "cur.close", "conn.close">>)
         [] db = "lost" ->
              Raise("Error", "connection already closed",
                    <<"connect", "cursor", "callproc", "rollback",
                      "cur.close", "conn.close">>)
         [] db = "norow" ->
              Raise("HTTPException", "Stored procedure error",
                    <<"connect", "cursor", "callproc", "fetchone", "commit",
                      "rollback", "cur.close", "conn.close">>)
         [] OTHER ->
              [raised |-> "none", status_code |-> 200, detail |-> "",
               row |-> sp.row, dbTable |-> sp.dbTable, dbSeq |-> sp.dbSeq,
               log |-> <<"connect", "cursor", "callproc", "fetchone", "commit",
                         "cur.close", "conn.close">>,
               open |-> 0]

\* ------------------------------------------------------------ handlers
\* Mutant: only a negative status counts as a rejection
status_rejected_if_negative(status) == status < 0

\* add_item: if status == 0
status_rejected(status) == status = 0

\* Mutant: not found is decided by the Registry being empty after the filter
nothing_removed_if_empty(filtered, original_count) == Len(filtered) = 0

\* remove_item: if len(in_memory_store) == original_count
nothing_removed(filtered, original_count) == Len(filtered) = original_count

\* What a handler leaves behind: the Registry, the file, the table, the
\* response, the driver calls and file saves it made, and the connections
\* it left open
Outcome(store, f, table, seq, resp, log, open, saved) ==
    [store |-> store, file |-> f, dbTable |-> table, dbSeq |-> seq,
     resp |-> resp, log |-> log, open |-> open, saved |-> saved]

HTTPException(status_code, detail) ==
    [status_code |-> status_code, status |-> "error", detail |-> detail]

\* Mutant: the item keeps the client's id also after a database insert
add_item_keeps_client_id(store, f, table, seq, req, db, sv) ==
    LET memOnly == Item(req.id, req.code, req.unit, req.age, req.cost)
        Appended(item, message, tbl, sq, log) ==
            LET grown == Append(store, item)
            IN Outcome(grown, save_to_file(grown, f, sv), tbl, sq,
                       [status_code |-> 200, status |-> "success",
                        message |-> message,
                        data |-> [id |-> item.id, total_items |-> Len(grown)]],
                       log, 0, TRUE)
        sp == call_stored_procedure(table, seq, req.code, req.unit, req.age,
                                    req.cost, db)
    IN IF check_duplicate_in_memory(store, req.code, req.unit, req.age, req.cost)
       THEN Outcome(store, f, table, seq,
                    HTTPException(400, "Duplicate item detected in memory store"),
                    <<>>, 0, FALSE)
       ELSE IF ~test_db_connection(db)
       THEN Appended(memOnly, "Item added to memory only (database unavailable)",
                     table, seq, ProbeLog(db))
       ELSE CASE sp.raised = "HTTPException" ->
                   \* except HTTPException: raise
                   Outcome(store, f, sp.dbTable, sp.dbSeq,
                           HTTPException(sp.status_code, sp.detail),
                           ProbeLog(db) \o sp.log, sp.open, FALSE)
              [] sp.raised = "Error" ->
                   \* except Exception: memory only
                   Appended(memOnly,
                            "Item added to memory only (database unavailable)",
                            sp.dbTable, sp.dbSeq, ProbeLog(db) \o sp.log)
              [] status_rejected(sp.row.status) ->
                   Outcome(store, f, sp.dbTable, sp.dbSeq,
                           HTTPException(400, sp.row.message),
                           ProbeLog(db) \o sp.log, sp.open, FALSE)
              [] OTHER ->
                   Appended(Item(req.id, req.code, req.unit, req.age, req.cost),
                            sp.row.message, sp.dbTable, sp.dbSeq,
                            ProbeLog(db) \o sp.log)

\* POST /add
add_item(store, f, table, seq, req, db, sv) ==
    LET memOnly == Item(req.id, req.code, req.unit, req.age, req.cost)
        Appended(item, message, tbl, sq, log) ==
            LET grown == Append(store, item)
            IN Outcome(grown, save_to_file(grown, f, sv), tbl, sq,
                       [status_code |-> 200, status |-> "success",
                        message |-> message,
                        data |-> [id |-> item.id, total_items |-> Len(grown)]],
                       log, 0, TRUE)
        sp == call_stored_procedure(table, seq, req.code, req.unit, req.age,
                                    req.cost, db)
    IN IF check_duplicate_in_memory(store, req.code, req.unit, req.age, req.cost)
       THEN Outcome(store, f, table, seq,
                    HTTPException(400, "Duplicate item detected in memory store"),
                    <<>>, 0, FALSE)
       ELSE IF ~test_db_connection(db)
       THEN Appended(memOnly, "Item added to memory only (database unavailable)",
                     table, seq, ProbeLog(db))
       ELSE CASE sp.raised = "HTTPException" ->
                   \* except HTTPException: raise
                   Outcome(store, f, sp.dbTable, sp.dbSeq,
                           HTTPException(sp.status_code, sp.detail),
                           ProbeLog(db) \o sp.log, sp.open, FALSE)
              [] sp.raised = "Error" ->
                   \* except Exception: memory only
                   Appended(memOnly,
                            "Item added to memory only (database unavailable)",
                            sp.dbTable, sp.dbSeq, ProbeLog(db) \o sp.log)
              [] status_rejected(sp.row.status) ->
                   Outcome(store, f, sp.dbTable, sp.dbSeq,
                           HTTPException(400, sp.row.message),
                           ProbeLog(db) \o sp.log, sp.open, FALSE)
              [] OTHER ->
                   Appended(Item(sp.row.id, req.code, req.unit, req.age, req.cost),
                            sp.row.message, sp.dbTable, sp.dbSeq,
                            ProbeLog(db) \o sp.log)

\* remove_item's database part: DELETE FROM items WHERE id = %s.  `raised` says
\* whether an exception leaves the try statement: conn and cur are plain
\* locals, so conn.rollback() and cur.close() raise UnboundLocalError when the
\* connect or the cursor() call failed, and a raising cur.close() skips
\* conn.close()
delete_from_db(table, seq, id, db) ==
    LET Left(raised, tbl, log, open) ==
            [raised |-> raised, dbTable |-> tbl, dbSeq |-> seq, log |-> log,
             open |-> open]
    IN CASE db = "connfail" -> Left(TRUE, table, <<"connect">>, 0)
         [] db = "curfail" -> Left(TRUE, table, <<"connect", "cursor", "rollback">>, 1)
         [] db = "execfail" ->
              Left(FALSE, table,
                   <<"connect", "cursor", "execute", "rollback", "cur.close",
                     "conn.close">>, 0)
         [] db = "commitfail" ->
              Left(FALSE, table,
                   <<"connect", "cursor", "execute", "commit", "rollback",
                     "cur.close", "conn.close">>, 0)
         [] db = "lost" ->
              Left(TRUE, table,
                   <<"connect", "cursor", "execute", "rollback", "cur.close",
                     "conn.close">>, 0)
         [] OTHER ->
              Left(FALSE, table \ {id},
                   <<"connect", "cursor", "execute", "commit", "cur.close",
                     "conn.close">>, 0)

\* clear_items' database part: TRUNCATE TABLE items RESTART IDENTITY, in the
\* same try / except / finally as remove_item's
truncate_db(table, seq, db) ==
    LET Left(raised, tbl, sq, log, open) ==
            [raised |-> raised, dbTable |-> tbl, dbSeq |-> sq, log |-> log,
             open |-> open]
    IN CASE db = "connfail" -> Left(TRUE, table, seq, <<"connect">>, 0)
         [] db = "curfail" ->
              Left(TRUE, table, seq, <<"connect", "cursor", "rollback">>, 1)
         [] db = "execfail" ->
              Left(FALSE, table, seq,
                   <<"connect", "cursor", "execute", "rollback", "cur.close",
                     "conn.close">>, 0)
         [] db = "commitfail" ->
              Left(FALSE, table, seq,
                   <<"connect", "cursor", "execute", "commit", "rollback",
                     "cur.close", "conn.close">>, 0)
         [] db = "lost" ->
              Left(TRUE, table, seq,
                   <<"connect", "cursor", "execute", "rollback", "cur.close",
                     "conn.close">>, 0)
         [] OTHER ->
              Left(FALSE, {}, 1,
                   <<"connect", "cursor", "execute", "commit", "cur.close",
                     "conn.close">>, 0)

\* POST /remove
remove_item(store, f, table, seq, req, db, sv) ==
    LET original_count == Len(store)
        filtered == FilterOutId(store, req.id)
        Success(tbl, sq, log) ==
            Outcome(filtered, save_to_file(filtered, f, sv), tbl, sq,
                    [status_code |-> 200, status |-> "success",
                     message |-> "Item removed successfully",
                     data |-> [remaining_items |-> Len(filtered)]],
                    log, 0, TRUE)
        del == delete_from_db(table, seq, req.id, db)
    IN IF nothing_removed(filtered, original_count)
       THEN Outcome(filtered, f, table, seq,
                    HTTPException(404, "Item not found in memory"),
                    <<>>, 0, FALSE)
       ELSE IF ~test_db_connection(db)
       THEN Success(table, seq, ProbeLog(db))
       ELSE IF del.raised
       THEN \* except Exception: HTTPException(500); save_to_file is not reached
            Outcome(filtered, f, del.dbTable, del.dbSeq,
                    HTTPException(500, "Failed to remove item"),
                    ProbeLog(db) \o del.log, del.open, FALSE)
       ELSE Success(del.dbTable, del.dbSeq, ProbeLog(db) \o del.log)

\* Mutant: the count is taken after the Registry was reset
clear_items_count_after_reset(store, f, table, seq, db, sv) ==
    LET items_count == Len(<<>>)
        Success(tbl, sq, log) ==
            Outcome(<<>>, save_to_file(<<>>, f, sv), tbl, sq,
                    [status_code |-> 200, status |-> "success",
                     message |-> "All items cleared successfully",
                     data |-> [items_cleared |-> items_count]],
                    log, 0, TRUE)
        trunc == truncate_db(table, seq, db)
    IN IF ~test_db_connection(db)
       THEN Success(table, seq, ProbeLog(db))
       ELSE IF trunc.raised
       THEN Outcome(<<>>, f, trunc.dbTable, trunc.dbSeq,
                    HTTPException(500, "Failed to clear items"),
                    ProbeLog(db) \o trunc.log, trunc.open, FALSE)
       ELSE Success(trunc.dbTable, trunc.dbSeq, ProbeLog(db) \o trunc.log)

\* POST /clear
clear_items(store, f, table, seq, db, sv) ==
    LET items_count == Len(store)
        Success(tbl, sq, log) ==
            Outcome(<<>>, save_to_file(<<>>, f, sv), tbl, sq,
                    [status_code |-> 200, status |-> "success",
                     message |-> "All items cleared successfully",
                     data |-> [items_cleared |-> items_count]],
                    log, 0, TRUE)
        trunc == truncate_db(table, seq, db)
    IN IF ~test_db_connection(db)
       THEN Success(table, seq, ProbeLog(db))
       ELSE IF trunc.raised
       THEN Outcome(<<>>, f, trunc.dbTable, trunc.dbSeq,
                    HTTPException(500, "Failed to clear items"),
                    ProbeLog(db) \o trunc.log, trunc.open, FALSE)
       ELSE Success(trunc.dbTable, trunc.dbSeq, ProbeLog(db) \o trunc.log)

\* Mutant: x goes in front of the elements of equal key
RECURSIVE InsertByKey_before_equal(_, _, _)
InsertByKey_before_equal(sorted, x, key) ==
    IF sorted = <<>> THEN <<x>>
    ELSE IF Head(sorted)[key] < x[key]
         THEN <<Head(sorted)>> \o InsertByKey_before_equal(Tail(sorted), x, key)
         ELSE <<x>> \o sorted

\* sorted(): x goes behind every element whose key is not greater (stable)
RECURSIVE InsertByKey(_, _, _)
InsertByKey(sorted, x, key) ==
    IF sorted = <<>> THEN <<x>>
    ELSE IF Head(sorted)[key] <= x[key]
         THEN <<Head(sorted)>> \o InsertByKey(Tail(sorted), x, key)
         ELSE <<x>> \o sorted

RECURSIVE SortedBy(_, _)
SortedBy(items, key) ==
    IF items = <<>> THEN <<>>
    ELSE InsertByKey(SortedBy(SubSeq(items, 1, Len(items) - 1), key),
                     items[Len(items)], key)

\* POST /snapshot
get_snapshot(store, sort_by) ==
    IF store = <<>> THEN <<>> ELSE SortedBy(store, sort_by)

\* Mutant: the probe's answer is not looked at
health_check_always_connected(store, db) ==
    [status_code |-> 200, status |-> "healthy",
     database |-> "connected",
     items_in_memory |-> Len(store)]

\* GET /health
health_check(store, db) ==
    [status_code |-> 200, status |-> "healthy",
     database |-> IF test_db_connection(db) THEN "connected" ELSE "disconnected",
     items_in_memory |-> Len(store)]

\* The state a request started from
Before == [store |-> in_memory_store, file |-> file, dbTable |-> dbTable,
           dbSeq |-> dbSeq]

Idle == last.op = "none"

Commit(op, req, db, sv, out) ==
    /\ Len(out.store) <= MaxItems
    /\ out.dbSeq <= MaxDbId + 1
    /\ in_memory_store' = out.store
    /\ file' = out.file
    /\ dbTable' = out.dbTable
    /\ dbSeq' = out.dbSeq
    /\ last' = [op |-> op, req |-> req, db |-> db, sv |-> sv, pre |-> Before,
                resp |-> out.resp, log |-> out.log, open |-> out.open]
    /\ UNCHANGED <<lock, saves>>

\* The database outcome is drawn only when the handler gets as far as the
\* probe and the save outcome only when it gets as far as save_to_file(); an
\* outcome the handler never meets is "unused".  `probed` is the handler run
\* with the database down, `saving` the handler run with a working write.
DbDrawn(probed, dbs) == IF probed.log = <<>> THEN {"unused"} ELSE dbs

SaveDrawn(saving) == IF saving.saved THEN SaveOutcomes ELSE {"unused"}

AddItem ==
    /\ Idle
    /\ \E req \in AddItemRequest :
        \E db \in DbDrawn(add_item(in_memory_store, file, dbTable, dbSeq, req,
                                   "down", "ok"), AddDbOutcomes) :
          \E sv \in SaveDrawn(add_item(in_memory_store, file, dbTable, dbSeq,
                                       req, db, "ok")) :
            Commit("add", req, db, sv,
                   add_item(in_memory_store, file, dbTable, dbSeq, req, db, sv))

RemoveItem ==
    /\ Idle
    /\ \E req \in RemoveRequest :
        \E db \in DbDrawn(remove_item(in_memory_store, file, dbTable, dbSeq, req,
                                      "down", "ok"), DbOutcomes) :
          \E sv \in SaveDrawn(remove_item(in_memory_store, file, dbTable, dbSeq,
                                          req, db, "ok")) :
            Commit("remove", req, db, sv,
                   remove_item(in_memory_store, file, dbTable, dbSeq, req, db, sv))

ClearItems ==
    /\ Idle
    /\ \E db \in DbOutcomes :
        \E sv \in SaveDrawn(clear_items(in_memory_store, file, dbTable, dbSeq,
                                        db, "ok")) :
          Commit("clear", [id |-> 0], db, sv,
                 clear_items(in_memory_store, file, dbTable, dbSeq, db, sv))

GetSnapshot ==
    /\ Idle
    /\ \E sort_by \in SortRequest :
        Commit("snapshot", [sort_by |-> sort_by], "unused", "unused",
               Outcome(in_memory_store, file, dbTable, dbSeq,
                       [status_code |-> 200,
                        items |-> get_snapshot(in_memory_store, sort_by)],
                       <<>>, 0, FALSE))

HealthCheck ==
    /\ Idle
    /\ \E db \in {"down", "ok"} :
        Commit("health", [id |-> 0], db, "unused",
               Outcome(in_memory_store, file, dbTable, dbSeq,
                       health_check(in_memory_store, db), ProbeLog(db), 0, FALSE))

\* The process has ended: its hooks ran, or it was killed
Stopped == last.op \in {"shutdown", "atexit", "crash"}

\* shutdown_event(): the server stops and saves the Registry
Shutdown ==
    /\ Idle
    /\ \E sv \in SaveOutcomes :
          Commit("shutdown", [id |-> 0], "unused", sv,
                 Outcome(in_memory_store, save_to_file(in_memory_store, file, sv),
                         dbTable, dbSeq, [status_code |-> 200], <<>>, 0, TRUE))

\* atexit.register(save_to_file): the interpreter exits after the shutdown
\* and saves once more
AtExit ==
    /\ last.op = "shutdown"
    /\ \E sv \in SaveOutcomes :
          Commit("atexit", [id |-> 0], "unused", sv,
                 Outcome(in_memory_store, save_to_file(in_memory_store, file, sv),
                         dbTable, dbSeq, [status_code |-> 200], <<>>, 0, TRUE))

\* The process is killed between two requests: no hook runs
Crash ==
    /\ Idle
    /\ Commit("crash", [id |-> 0], "unused", "unused",
              Outcome(in_memory_store, file, dbTable, dbSeq,
                      [status_code |-> 200], <<>>, 0, FALSE))

\* A new process: in_memory_store = [] at import, then startup_event() loads
\* the file
Startup ==
    /\ last.op \in {"atexit", "crash"}
    /\ LET loaded == load_from_file(<<>>, file)
       IN Commit("startup", [id |-> 0], "unused", "unused",
                 Outcome(loaded.store, file, dbTable, dbSeq,
                         [status_code |-> IF loaded.raised THEN 500 ELSE 200,
                          items_in_memory |-> Len(loaded.store)],
                         <<>>, 0, FALSE))

\* The state after the first start, in a directory without a file
Init ==
    /\ in_memory_store = <<>>
    /\ file = NoFile
    /\ dbTable = {}
    /\ dbSeq = 1
    /\ last = [op |-> "none"]
    /\ lock = "free"
    /\ saves = [t \in Threads |->
                   NotSaving(IF t = "handler" THEN "idle" ELSE "start")]

\* The response goes back to the client; the event loop takes the next request
Respond ==
    /\ ~Idle
    /\ ~Stopped
    /\ last' = [op |-> "none"]
    /\ UNCHANGED <<in_memory_store, file, dbTable, dbSeq, lock, saves>>

Next ==
    \/ AddItem
    \/ RemoveItem
    \/ ClearItems
    \/ GetSnapshot
    \/ HealthCheck
    \/ Shutdown
    \/ AtExit
    \/ Crash
    \/ Startup
    \/ Respond

Spec == Init /\ [][Next]_vars

\* ------------------------------------------------- concurrent saves
\* save_to_file() step by step, called from several threads at once: the
\* handler thread changes the Registry and then saves, the exit hooks save
\* whenever they run.  A file being written holds what was written so far;
\* every writer has its own file object and position.

\* The items the handler thread appends
SaveItems == {Item(1, "A1", 5, 2, 10000), Item(2, "B2", 5, 2, 10000)}

\* A position of the file that no writer has filled
Hole == [id |-> 0, code |-> "", unit |-> 0, age |-> 0, cost |-> 0]

\* f.write() of the k-th item at the writer's own position
WriteAt(items, k, x) ==
    [j \in 1..(IF k > Len(items) THEN k ELSE Len(items)) |->
        IF j = k THEN x ELSE IF j <= Len(items) THEN items[j] ELSE Hole]

\* The thread is inside `with lock:`
InWithLock(t) == saves[t].pc \in {"data", "open", "dump", "saved"}

\* Where a thread is after save_to_file() returned
AfterSave(t) == NotSaving(IF t = "handler" THEN "idle" ELSE "done")

\* Mutant: the `with lock:` statement is missing
acquire_without_lock(l, t) == TRUE

\* with lock: the thread enters when no thread holds the lock
acquire(l, t) == l = "free"

\* The Registry changes to `store`: a thread that holds the lock has seen
\* one more Registry, and when the global is rebound (remove, clear) a list
\* comprehension that is running keeps the list object it started on
Changed(store, rebound) ==
    [t \in Threads |->
        IF InWithLock(t)
        THEN [saves[t] EXCEPT
                !.seen = @ \cup {store},
                !.attached = @ /\ ~rebound,
                !.src = IF saves[t].attached /\ rebound
                        THEN in_memory_store ELSE @]
        ELSE IF t = "handler" THEN NotSaving("start") ELSE saves[t]]

\* A handler changes the Registry (in_memory_store.append(item), or the
\* rebinding of remove_item and clear_items) and goes on to save_to_file()
Mutate ==
    /\ saves["handler"].pc = "idle"
    /\ \/ \E item \in SaveItems :
             /\ Len(in_memory_store) < MaxItems
             /\ in_memory_store' = Append(in_memory_store, item)
             /\ saves' = Changed(in_memory_store', FALSE)
       \/ \E id \in Ids :
             /\ FilterOutId(in_memory_store, id) # in_memory_store
             /\ in_memory_store' = FilterOutId(in_memory_store, id)
             /\ saves' = Changed(in_memory_store', TRUE)
       \/ /\ in_memory_store' = <<>>
          /\ saves' = Changed(in_memory_store', TRUE)
    /\ UNCHANGED <<file, dbTable, dbSeq, last, lock>>

\* with lock:
Acquire(t) ==
    /\ saves[t].pc = "start"
    /\ acquire(lock, t)
    /\ lock' = t
    /\ saves' = [saves EXCEPT ![t] =
                    [pc |-> "data", attached |-> TRUE, src |-> <<>>, i |-> 1,
                     data |-> <<>>, k |-> 1, seen |-> {in_memory_store}]]
    /\ UNCHANGED <<in_memory_store, file, dbTable, dbSeq, last>>

\* [item.dict() for item in in_memory_store]: one step of the iteration
ReadItem(t) ==
    /\ saves[t].pc = "data"
    /\ LET list == IF saves[t].attached THEN in_memory_store ELSE saves[t].src
       IN saves' = [saves EXCEPT ![t] =
                       IF saves[t].i <= Len(list)
                       THEN [@ EXCEPT !.data = Append(@, list[saves[t].i]),
                                      !.i = @ + 1]
                       ELSE [@ EXCEPT !.pc = "open"]]
    /\ UNCHANGED <<in_memory_store, file, dbTable, dbSeq, last, lock>>

\* open(PERSISTENCE_FILE, 'w'): the file is truncated
OpenFile(t) ==
    /\ saves[t].pc = "open"
    /\ file' = [kind |-> "partial", items |-> <<>>]
    /\ saves' = [saves EXCEPT ![t].pc = "dump"]
    /\ UNCHANGED <<in_memory_store, dbTable, dbSeq, last, lock>>

\* json.dump(data, f): one write per item; after the last one the file is
\* closed
Dump(t) ==
    /\ saves[t].pc = "dump"
    /\ IF saves[t].k <= Len(saves[t].data)
       THEN /\ file' = [kind |-> "partial",
                        items |-> WriteAt(file.items, saves[t].k,
                                          saves[t].data[saves[t].k])]
            /\ saves' = [saves EXCEPT ![t].k = @ + 1]
       ELSE /\ file' = [kind |-> "json", items |-> file.items]
            /\ saves' = [saves EXCEPT ![t].pc = "saved"]
    /\ UNCHANGED <<in_memory_store, dbTable, dbSeq, last, lock>>

\* The write raises: the file stays as far as it was written, the exception
\* leaves the `with lock:` block, which releases the lock, and is logged
FailWrite(t) ==
    /\ saves[t].pc = "dump"
    /\ file' = Malformed
    /\ lock' = IF lock = t THEN "free" ELSE lock
    /\ saves' = [saves EXCEPT ![t] = AfterSave(t)]
    /\ UNCHANGED <<in_memory_store, dbTable, dbSeq, last>>

\* The end of `with lock:` after logger.info
Release(t) ==
    /\ saves[t].pc = "saved"
    /\ lock' = IF lock = t THEN "free" ELSE lock
    /\ saves' = [saves EXCEPT ![t] = AfterSave(t)]
    /\ UNCHANGED <<in_memory_store, file, dbTable, dbSeq, last>>

SaveNext ==
    \/ Mutate
    \/ \E t \in Threads : Acquire(t)
    \/ \E t \in Threads : ReadItem(t)
    \/ \E t \in Threads : OpenFile(t)
    \/ \E t \in Threads : Dump(t)
    \/ \E t \in Threads : FailWrite(t)
    \/ \E t \in Threads : Release(t)

SaveSpec == Init /\ [][SaveNext]_vars

\* ================================================================ claims
\* The item a request describes, under the id the client supplied
RequestedItem(req) == Item(req.id, req.code, req.unit, req.age, req.cost)

\* Some item of the store has the request's code, unit and age and a cost
\* closer than 0.01 to the request's
NearDuplicate(store, req) ==
    \E i \in DOMAIN store :
        /\ store[i].code = req.code
        /\ store[i].unit = req.unit
        /\ store[i].age = req.age
        /\ store[i].cost - req.cost < Tolerance
        /\ req.cost - store[i].cost < Tolerance

\* The request left the Registry, the file and the table as it found them
NothingChanged ==
    /\ in_memory_store = last.pre.store
    /\ file = last.pre.file
    /\ dbTable = last.pre.dbTable
    /\ dbSeq = last.pre.dbSeq

DuplicateError ==
    /\ last.resp.status_code = 400
    /\ last.resp.detail = "Duplicate item detected in memory store"

\* C1: an add whose code, unit and age equal those of an item of the Registry
\* and whose cost is closer than 0.01 to that item's is answered 400
\* duplicate; the Registry, the file and the table stay as they were and no
\* database call is made.
C1_DuplicateRejected ==
    (last.op = "add" /\ NearDuplicate(last.pre.store, last.req)) =>
        /\ DuplicateError
        /\ NothingChanged
        /\ last.log = <<>>
        /\ last.sv = "unused"

C1_Witness ==
    /\ last.op = "add"
    /\ NearDuplicate(last.pre.store, last.req)
    /\ \E i \in DOMAIN last.pre.store : last.pre.store[i].cost # last.req.cost
    /\ DuplicateError
    /\ in_memory_store = last.pre.store
    /\ Len(in_memory_store) > 0

\* C2: with costs in thousandths, add's in-memory check rejects a request if
\* and only if some item of the Registry has the same code, unit and age and a
\* cost at distance strictly less than 0.01.  With {A1, 5, 2, 10.000} stored,
\* cost 10.004 is rejected and cost 10.020 is accepted when the database is
\* unreachable.
C2_DuplicateIff ==
    last.op = "add" =>
        /\ DuplicateError <=> NearDuplicate(last.pre.store, last.req)
        /\ ( /\ last.pre.store = <<Item(1, "A1", 5, 2, 10000)>>
             /\ last.req.code = "A1" /\ last.req.unit = 5 /\ last.req.age = 2
             /\ last.req.cost = 10004 ) => DuplicateError
        /\ ( /\ last.pre.store = <<Item(1, "A1", 5, 2, 10000)>>
             /\ last.req.code = "A1" /\ last.req.unit = 5 /\ last.req.age = 2
             /\ last.req.cost = 10020
             /\ last.db = "down" ) =>
               /\ last.resp.status_code = 200
               /\ Len(in_memory_store) = 2

C2_Witness ==
    /\ last.op = "add"
    /\ last.pre.store = <<Item(1, "A1", 5, 2, 10000)>>
    /\ last.req.code = "A1" /\ last.req.unit = 5 /\ last.req.age = 2
    /\ last.req.cost = 10020
    /\ last.db = "down"
    /\ last.resp.status_code = 200
    /\ in_memory_store = <<Item(1, "A1", 5, 2, 10000), Item(1, "A1", 5, 2, 10020)>>

\* The add case of C3: the probe failed and the item is no duplicate
C3_Case ==
    /\ last.op = "add"
    /\ last.db = "down"
    /\ ~NearDuplicate(last.pre.store, last.req)

\* What C3 says of that add apart from the file
C3_MemoryOnlyAdd ==
    /\ last.resp.status_code = 200
    /\ in_memory_store = Append(last.pre.store, RequestedItem(last.req))
    /\ Len(in_memory_store) = Len(last.pre.store) + 1
    /\ last.resp.data.id = last.req.id
    /\ last.resp.data.total_items = Len(in_memory_store)
    /\ last.log = <<"connect">>
    /\ dbTable = last.pre.dbTable
    /\ dbSeq = last.pre.dbSeq

\* C3 as stated: when the probe fails, an add that is no duplicate succeeds
\* with the client's id, the Registry grows by one, the response carries the
\* id and the new size, the file holds the new Registry and no insert is
\* attempted.
C3_AsStated ==
    C3_Case => (C3_MemoryOnlyAdd /\ file = JsonFile(in_memory_store))

\* C3, amended: as stated, but the file holds the new Registry only when the
\* write works; the write is always attempted, and a failing write is
\* swallowed and leaves the response a success.
C3_MemoryOnlyAddSucceeds ==
    C3_Case =>
        /\ C3_MemoryOnlyAdd
        /\ last.sv # "unused"
        /\ last.sv = "ok" => file = JsonFile(in_memory_store)

C3_Witness ==
    /\ C3_Case
    /\ Len(last.pre.store) = 1
    /\ last.sv = "ok"
    /\ last.resp.status_code = 200
    /\ file = JsonFile(in_memory_store)
    /\ Len(in_memory_store) = 2

\* The add case of C4: the probe connected, the insert then failed with a
\* connection or driver error, and the item is no duplicate
C4_Case ==
    /\ last.op = "add"
    /\ last.db \in {"connfail", "curfail", "execfail", "commitfail", "lost"}
    /\ ~NearDuplicate(last.pre.store, last.req)

\* C4: when the probe succeeds and the insert then fails with a connection or
\* driver error, add does not fail: it appends the item under the client's id,
\* saves the file and answers success.
C4_FallbackOnInsertFailure ==
    C4_Case =>
        /\ last.resp.status_code = 200
        /\ in_memory_store = Append(last.pre.store, RequestedItem(last.req))
        /\ last.sv # "unused"

\* The add case of C5: the stored procedure answered with status 0
C5_Case ==
    /\ last.op = "add"
    /\ last.db = "reject"

\* C5: when the stored procedure answers status 0, add answers 400 with the
\* procedure's message; the Registry and the file are unchanged, nothing is
\* appended and nothing is saved.
C5_RejectionIsClientError ==
    C5_Case =>
        /\ last.resp.status_code = 400
        /\ last.resp.detail = "Item already exists"
        /\ in_memory_store = last.pre.store
        /\ file = last.pre.file
        /\ last.sv = "unused"

C5_Witness ==
    /\ C5_Case
    /\ last.resp.status_code = 400
    /\ Len(last.pre.store) = 1
    /\ in_memory_store = last.pre.store
    /\ "callproc" \in {last.log[i] : i \in DOMAIN last.log}

\* Some item of the store has the id
Present(store, id) == \E i \in DOMAIN store : store[i].id = id

\* The store without the items of the id, the others in their order
Without(store, id) == SelectSeq(store, LAMBDA item : item.id # id)

\* The remove case of C6 and C8: the id was in the Registry
RemovePresent ==
    /\ last.op = "remove"
    /\ Present(last.pre.store, last.req.id)

\* C6: removing an id that is present decreases the size of the Registry by
\* exactly one, leaves every other item in place and in order, and leaves no
\* item of that id.
C6_RemoveTakesExactlyOne ==
    RemovePresent =>
        /\ Len(in_memory_store) = Len(last.pre.store) - 1
        /\ in_memory_store = Without(last.pre.store, last.req.id)
        /\ ~Present(in_memory_store, last.req.id)

\* C7: removing an id that no item has is answered 404; the Registry, the
\* file and the table are unchanged, and neither a probe nor a delete nor a
\* save is made.
C7_RemoveAbsentNotFound ==
    (last.op = "remove" /\ ~Present(last.pre.store, last.req.id)) =>
        /\ last.resp.status_code = 404
        /\ last.resp.detail = "Item not found in memory"
        /\ NothingChanged
        /\ last.log = <<>>
        /\ last.sv = "unused"

C7_Witness ==
    /\ last.op = "remove"
    /\ ~Present(last.pre.store, last.req.id)
    /\ Len(last.pre.store) = 2
    /\ last.resp.status_code = 404
    /\ in_memory_store = last.pre.store

\* C8: a remove that took an item out of the Registry completes with a
\* success response and with the file rewritten to the new Registry, whatever
\* the database does afterwards, and the item is not restored.
C8_RemoveSurvivesDatabase ==
    RemovePresent =>
        /\ last.resp.status_code = 200
        /\ last.sv # "unused"
        /\ last.sv = "ok" => file = JsonFile(in_memory_store)
        /\ ~Present(in_memory_store, last.req.id)

\* C9: a clear of an N-item Registry that answers success reports
\* items_cleared = N, and after any clear, whatever it answered, the Registry
\* is empty and a snapshot returns the empty sequence.
C9_ClearCountsAndEmpties ==
    last.op = "clear" =>
        /\ last.resp.status_code = 200 =>
               last.resp.data.items_cleared = Len(last.pre.store)
        /\ in_memory_store = <<>>
        /\ \A sort_by \in SortRequest : get_snapshot(in_memory_store, sort_by) = <<>>

C9_Witness ==
    /\ last.op = "clear"
    /\ Len(last.pre.store) = MaxItems
    /\ last.resp.status_code = 200
    /\ last.resp.data.items_cleared = MaxItems
    /\ in_memory_store = <<>>

\* C10: every clear answers success and leaves the file holding an empty item
\* list, whatever the database does.
C10_ClearSurvivesDatabase ==
    last.op = "clear" =>
        /\ last.resp.status_code = 200
        /\ last.sv # "writefail" => file = JsonFile(<<>>)

\* The bijections of 1..n
Bijections(n) ==
    {p \in [1..n -> 1..n] : \A i, j \in 1..n : p[i] = p[j] => i = j}

\* items is store rearranged by p
Rearranged(items, store, p) ==
    /\ Len(items) = Len(store)
    /\ \A i \in 1..Len(items) : items[i] = store[p[i]]

\* C11: for every Registry and every sort_by of unit, age, cost the snapshot
\* is a permutation of the Registry, is non-decreasing in the chosen field and
\* is stable (items of equal field value keep the Registry's relative order);
\* the empty Registry gives the empty sequence.
C11_SnapshotSortedStable ==
    last.op = "snapshot" =>
        LET items == last.resp.items
            key == last.req.sort_by
        IN /\ last.resp.status_code = 200
           /\ \E p \in Bijections(Len(last.pre.store)) :
                 /\ Rearranged(items, last.pre.store, p)
                 /\ \A i, j \in 1..Len(items) :
                       i < j => /\ items[i][key] <= items[j][key]
                                /\ items[i][key] = items[j][key] => p[i] < p[j]
           /\ last.pre.store = <<>> => items = <<>>

C11_Witness ==
    /\ last.op = "snapshot"
    /\ Len(last.pre.store) = 2
    /\ last.pre.store[1] # last.pre.store[2]
    /\ last.pre.store[1][last.req.sort_by] = last.pre.store[2][last.req.sort_by]
    /\ last.resp.items = last.pre.store
    /\ \E key \in SortRequest :
          /\ last.pre.store[1][key] > last.pre.store[2][key]
          /\ get_snapshot(last.pre.store, key) =
                 <<last.pre.store[2], last.pre.store[1]>>

\* The probe of the request connected
ProbeConnected == last.log = <<"connect", "conn.close">>

\* C12: snapshot and health leave the Registry (contents and order), the file
\* and the table as they were; health reports items_in_memory equal to the
\* size of the Registry and database "connected" exactly when the probe
\* succeeds.
C12_ReadsHaveNoSideEffects ==
    /\ last.op \in {"snapshot", "health"} => NothingChanged
    /\ last.op = "health" =>
          /\ last.resp.items_in_memory = Len(in_memory_store)
          /\ last.resp.database \in {"connected", "disconnected"}
          /\ last.resp.database = "connected" <=> ProbeConnected

C12_Witness ==
    /\ last.op = "health"
    /\ Len(in_memory_store) = 2
    /\ file = JsonFile(in_memory_store)
    /\ ~ProbeConnected
    /\ last.resp.database = "disconnected"
    /\ last.resp.items_in_memory = 2

\* A mutating request that was answered with success
MutationSucceeded ==
    /\ last.op \in {"add", "remove", "clear"}
    /\ last.resp.status_code = 200

\* C13: after every add, remove or clear that completes with a success
\* response and whose file write did not fail, the item list of the file
\* equals the Registry, in order; loading that file into a fresh process gives
\* the Registry again, and a process started after a stop whose file held the
\* Registry starts with the Registry of the stopped process.
C13_FileEqualsRegistry ==
    /\ (MutationSucceeded /\ last.sv = "ok") =>
          /\ file.kind = "json"
          /\ file.items = in_memory_store
          /\ load_from_file(<<>>, file).store = in_memory_store
    /\ (last.op = "startup" /\ last.pre.file.kind = "json"
          /\ last.pre.file.items = last.pre.store) =>
          in_memory_store = last.pre.store

C13_Witness ==
    /\ last.op = "remove"
    /\ last.resp.status_code = 200
    /\ last.sv = "ok"
    /\ last.pre.file = JsonFile(last.pre.store)
    /\ Len(last.pre.store) = 2
    /\ Len(in_memory_store) = 1
    /\ file = JsonFile(in_memory_store)

\* C16: the startup load never raises: with the file absent or malformed the
\* Registry is empty after startup, and with a well-formed file the Registry
\* equals the file's item list in file order; the file is left as it was.
C16_StartupLoadNeverRaises ==
    last.op = "startup" =>
        /\ last.resp.status_code = 200
        /\ last.pre.file.kind \in {"absent", "malformed"} => in_memory_store = <<>>
        /\ last.pre.file.kind = "json" => in_memory_store = last.pre.file.items
        /\ last.resp.items_in_memory = Len(in_memory_store)
        /\ file = last.pre.file

C16_Witness ==
    /\ last.op = "startup"
    /\ last.pre.file.kind = "malformed"
    /\ Len(last.pre.store) = 2
    /\ in_memory_store = <<>>
    /\ last.resp.status_code = 200

\* The driver calls of the last request, as a set
Called == {last.log[i] : i \in DOMAIN last.log}

\* C14: every connection and cursor a handler opened (the probe, add's
\* stored-procedure insert, remove's DELETE, clear's TRUNCATE) is closed
\* before the handler returns, on every exit path: no request ends with a
\* connection still open, and a handler that got as far as conn.cursor()
\* closed its connection.
C14_EveryConnectionClosed ==
    last.op \in {"add", "remove", "clear", "health"} =>
        /\ last.open = 0
        /\ "cursor" \in Called => last.log[Len(last.log)] = "conn.close"

\* C15: when several saves run at once (the handlers' thread, the shutdown
\* hook, the atexit hook), at most one of them is inside the write section,
\* and the file a completed save produced is one complete snapshot of the
\* Registry, read while that save held the lock: never a mixture of two saves.
C15_SavesDoNotInterleave ==
    /\ \A t1, t2 \in Threads : (InWithLock(t1) /\ InWithLock(t2)) => t1 = t2
    /\ \A t \in Threads : InWithLock(t) => lock = t
    /\ \A t \in Threads :
          saves[t].pc = "saved" =>
              /\ file = JsonFile(saves[t].data)
              /\ saves[t].data \in saves[t].seen

C15_Witness ==
    /\ saves["shutdown"].pc = "saved"
    /\ saves["atexit"].pc = "start"
    /\ saves["handler"].pc = "start"
    /\ Len(saves["shutdown"].data) = 2
    /\ file = JsonFile(saves["shutdown"].data)
    /\ in_memory_store = <<>>
    /\ Cardinality(saves["shutdown"].seen) = 2

\* The stored-procedure insert of the last request went through
InsertCommitted == "commit" \in Called /\ "rollback" \notin Called

\* C17: every successful add only appends: the new item is the last element
\* of the Registry, the earlier items keep their values and order, the
\* response's total_items is the previous size plus one and its id is the
\* stored item's id: the id the database assigned when the insert went
\* through, the client's id otherwise.
C17_AddOnlyAppends ==
    (last.op = "add" /\ last.resp.status_code = 200) =>
        LET n == Len(last.pre.store)
            new == in_memory_store[n + 1]
        IN /\ Len(in_memory_store) = n + 1
           /\ SubSeq(in_memory_store, 1, n) = last.pre.store
           /\ new.code = last.req.code /\ new.unit = last.req.unit
           /\ new.age = last.req.age /\ new.cost = last.req.cost
           /\ last.resp.data.total_items = n + 1
           /\ last.resp.data.id = new.id
           /\ IF InsertCommitted
              THEN dbTable \ last.pre.dbTable = {new.id}
              ELSE new.id = last.req.id /\ dbTable = last.pre.dbTable

C17_Witness ==
    /\ last.op = "add"
    /\ last.resp.status_code = 200
    /\ InsertCommitted
    /\ Len(last.pre.store) = 1
    /\ last.req.id = 2
    /\ in_memory_store[2].id = 1
    /\ last.resp.data = [id |-> 1, total_items |-> 2]

\* Two items of equal code, unit and age whose costs are closer than 0.01
NearDuplicates(a, b) ==
    /\ a.code = b.code
    /\ a.unit = b.unit
    /\ a.age = b.age
    /\ a.cost - b.cost < Tolerance
    /\ b.cost - a.cost < Tolerance

\* C18: starting from the empty Registry, after any sequence of add, remove
\* and clear requests handled one at a time, with any pattern of database
\* availability and stored-procedure answers (and any stops and restarts
\* from the file), no two distinct items of the Registry have equal code,
\* unit and age and costs closer than 0.01.
C18_NoNearDuplicates ==
    \A i, j \in DOMAIN in_memory_store :
        i # j => ~NearDuplicates(in_memory_store[i], in_memory_store[j])

C18_Witness ==
    /\ last.op = "add"
    /\ last.resp.status_code = 200
    /\ Len(in_memory_store) = 2
    /\ in_memory_store[1].code = in_memory_store[2].code
    /\ in_memory_store[1].unit = in_memory_store[2].unit
    /\ in_memory_store[1].age = in_memory_store[2].age
    /\ in_memory_store[2].cost - in_memory_store[1].cost = Tolerance

\* The items a file holds: none when it is absent or cannot be read
FileItems(f) == IF f.kind = "json" THEN f.items ELSE <<>>

\* C19: an add or remove that is answered with an error status (400, 404,
\* 500, 503) leaves the Registry exactly as it was before the request, so
\* whenever no request is in progress the file and the Registry hold the same
\* items.
C19_FailureAtomicity ==
    /\ (last.op \in {"add", "remove"} /\ last.resp.status_code >= 400) =>
           in_memory_store = last.pre.store
    /\ (last.op \in {"add", "remove"} /\ last.resp.status_code >= 400
          /\ FileItems(last.pre.file) = last.pre.store) =>
           FileItems(file) = in_memory_store
====
